---- MODULE Spec2Model ----
(***************************************************************************)
(* A model of the NFT extractor: src/extractor-alchemy.py (format          *)
(* resolver, filename sanitizer, media selection and persistence, range    *)
(* mode) and src/retrieve-from-sheet.py (identifier resolver, row mode).   *)
(*                                                                         *)
(* Python strings are sequences of one-character strings.  A loosely typed *)
(* JSON value is a record [t, s]: t is its type ("absent" when the key is  *)
(* missing, "null", "num", "str") and s the characters of a string.        *)
(***************************************************************************)
EXTENDS Integers, Sequences, FiniteSets, TLC

VARIABLES
    pc,                  \* position of the running program
    DOWNLOAD_THUMBNAILS, \* extractor-alchemy.py:21, the thumbnail toggle
    input,               \* argument of the pure function under study
    hint,                \* second argument (the format hint) of get_extension
    output,              \* result of the pure function last applied
    metadata,            \* what fetch_metadata returned: [present, value]
    start_id,            \* range mode: first id of the range
    end_id,              \* range mode: last id of the range
    token_id,            \* range mode: the loop variable; else the token's id
    rows,                \* row mode: the parsed CSV rows
    start_row,           \* row mode: the 1-indexed start row
    count,               \* row mode: the limit, [none, n]
    current_row_idx,     \* row mode: index (0-based) of the next row
    processed_count,     \* row mode: processed counter
    skipped_count,       \* row mode: skipped counter
    files,               \* the output directory: set of files
    events               \* what the run did, in order

pureVars == <<input, hint, output>>

rangeVars == <<start_id, end_id>>

rowVars == <<rows, start_row, count, current_row_idx, processed_count,
             skipped_count>>

vars == <<pc, DOWNLOAD_THUMBNAILS, pureVars, metadata, rangeVars, token_id,
          rowVars, files, events>>

----------------------------------------------------------------------------
(* Characters and strings *)

Digits == {"0", "1", "2", "3", "4", "5", "6", "7", "8", "9"}

LowerSeq == <<"a", "b", "c", "d", "e", "f", "g", "h", "i", "j", "k", "l", "m",
              "n", "o", "p", "q", "r", "s", "t", "u", "v", "w", "x", "y", "z">>

UpperSeq == <<"A", "B", "C", "D", "E", "F", "G", "H", "I", "J", "K", "L", "M",
              "N", "O", "P", "Q", "R", "S", "T", "U", "V", "W", "X", "Y", "Z">>

Range(f) == {f[i] : i \in DOMAIN f}

LowerLetters == Range(LowerSeq)

UpperLetters == Range(UpperSeq)

\* [a-zA-Z0-9]
Alnum == Digits \cup LowerLetters \cup UpperLetters

\* [0-9a-fA-F]
HexChars == Digits \cup {"a", "b", "c", "d", "e", "f"}
                   \cup {"A", "B", "C", "D", "E", "F"}

\* [0-9a-fA-Fx]
HexOrX == HexChars \cup {"x"}

\* \s
Whitespace == {" ", "\t", "\n"}

\* str.lower() on one character
LowerChar(c) ==
    IF c \in UpperLetters
    THEN LowerSeq[CHOOSE i \in DOMAIN UpperSeq : UpperSeq[i] = c]
    ELSE c

Lower(s) == [i \in DOMAIN s |-> LowerChar(s[i])]

\* s[i..] as a new sequence
Drop(s, n) == SubSeq(s, n + 1, Len(s))

Take(s, n) == SubSeq(s, 1, n)

\* the literal lit occurs in s at position i (1-based)
MatchAt(s, i, lit) ==
    /\ i >= 1
    /\ i + Len(lit) - 1 <= Len(s)
    /\ \A k \in 1..Len(lit) : s[i + k - 1] = lit[k]

\* length of the longest run of characters of class starting at position i
RunLen(s, i, class) ==
    IF i > Len(s) \/ i < 1 THEN 0
    ELSE LET stops == {j \in i..Len(s) : s[j] \notin class}
         IN IF stops = {} THEN Len(s) - i + 1
            ELSE (CHOOSE j \in stops : \A k \in stops : j <= k) - i

\* str.find / str.rfind of one character: 0 when absent (1-based positions)
Find(s, c) ==
    LET hits == {i \in DOMAIN s : s[i] = c}
    IN IF hits = {} THEN 0 ELSE CHOOSE i \in hits : \A k \in hits : i <= k

RFind(s, c) ==
    LET hits == {i \in DOMAIN s : s[i] = c}
    IN IF hits = {} THEN 0 ELSE CHOOSE i \in hits : \A k \in hits : i >= k

\* str.strip(chars)
RECURSIVE LStrip(_, _)
LStrip(s, class) ==
    IF s # <<>> /\ Head(s) \in class THEN LStrip(Tail(s), class) ELSE s

RECURSIVE RStrip(_, _)
RStrip(s, class) ==
    IF s # <<>> /\ s[Len(s)] \in class
    THEN RStrip(Take(s, Len(s) - 1), class) ELSE s

Strip(s, class) == RStrip(LStrip(s, class), class)

\* the decimal digits of a natural number, as str(n) / an f-string gives them
DigitSeq == <<"0", "1", "2", "3", "4", "5", "6", "7", "8", "9">>

RECURSIVE IntToStr(_)
IntToStr(n) ==
    IF n < 10 THEN <<DigitSeq[n + 1]>>
    ELSE IntToStr(n \div 10) \o <<DigitSeq[(n % 10) + 1]>>

\* all sequences over alphabet of length at most n
RECURSIVE SeqsUpTo(_, _)
SeqsUpTo(alphabet, n) ==
    IF n = 0 THEN {<<>>}
    ELSE LET shorter == SeqsUpTo(alphabet, n - 1)
         IN shorter \cup {Append(s, c) : s \in shorter, c \in alphabet}

----------------------------------------------------------------------------
(* Loosely typed JSON values *)

Absent == [t |-> "absent", s |-> <<>>]

Null == [t |-> "null", s |-> <<>>]

\* a non-zero JSON number
Num == [t |-> "num", s |-> <<>>]

Str(s) == [t |-> "str", s |-> s]

\* Python truthiness of a value as read with dict.get(key)
Truthy(v) == \/ v.t = "num"
             \/ v.t = "str" /\ v.s # <<>>

----------------------------------------------------------------------------
(* Filename Sanitizer: extractor-alchemy.py, sanitize_filename *)

UnsafeChars == {"<", ">", ":", "\"", "/", "\\", "|", "?", "*"}

\* name.replace(' ', '-')
ReplaceSpaces(s) == [i \in DOMAIN s |-> IF s[i] = " " THEN "-" ELSE s[i]]

\* re.sub(r'[<>:"/\\|?*]', '', name)
RemoveUnsafe(s) == SelectSeq(s, LAMBDA c : c \notin UnsafeChars)

\* re.sub(r'-+', '-', name)
RECURSIVE CollapseHyphens(_)
CollapseHyphens(s) ==
    IF Len(s) < 2 THEN s
    ELSE IF s[1] = "-" /\ s[2] = "-" THEN CollapseHyphens(Tail(s))
    ELSE <<s[1]>> \o CollapseHyphens(Tail(s))

\* a slip: hyphens collapsed before the unsafe characters are removed
sanitize_filename_collapse_first(name) ==
    Strip(RemoveUnsafe(CollapseHyphens(ReplaceSpaces(name))), {"-"})

\* a slip: the spaces are left in the name
sanitize_filename_keeps_spaces(name) ==
    Strip(CollapseHyphens(RemoveUnsafe(name)), {"-"})

sanitize_filename(name) ==
    Strip(CollapseHyphens(RemoveUnsafe(ReplaceSpaces(name))), {"-"})

----------------------------------------------------------------------------
(* Format Resolver: extractor-alchemy.py, has_extension .. extension_from_mime *)

\* url.split("?")[0]
BeforeQuery(url) ==
    IF Find(url, "?") = 0 THEN url ELSE Take(url, Find(url, "?") - 1)

\* re.search(r"\.[a-zA-Z0-9]{2,5}$", path)
EndsInExtension(path) ==
    \E k \in 2..5 :
        /\ Len(path) >= k + 1
        /\ path[Len(path) - k] = "."
        /\ \A j \in (Len(path) - k + 1)..Len(path) : path[j] \in Alnum

has_extension(url) == EndsInExtension(BeforeQuery(url))

\* os.path.splitext(p)[1]: the text from the last dot of the last path
\* segment, unless only dots precede it in that segment
SplitExt(p) ==
    LET sepIndex == RFind(p, "/")
        dotIndex == RFind(p, ".")
    IN IF dotIndex > sepIndex
          /\ \E i \in (sepIndex + 1)..(dotIndex - 1) : p[i] # "."
       THEN Drop(p, dotIndex - 1)
       ELSE <<>>

S_jpg == <<"j", "p", "g">>

S_jpeg == <<"j", "p", "e", "g">>

S_png == <<"p", "n", "g">>

S_gif == <<"g", "i", "f">>

S_webp == <<"w", "e", "b", "p">>

S_svg == <<"s", "v", "g">>

S_bmp == <<"b", "m", "p">>

S_image == <<"i", "m", "a", "g", "e", "/">>

S_video == <<"v", "i", "d", "e", "o", "/">>

normalize_mime(fmt0) ==
    LET fmt == Strip(Lower(fmt0), Whitespace)
    IN IF Find(fmt, "/") = 0
       THEN IF fmt \in {S_jpg, S_jpeg} THEN S_image \o S_jpeg
            ELSE IF fmt = S_png THEN S_image \o S_png
            ELSE IF fmt = S_gif THEN S_image \o S_gif
            ELSE IF fmt = S_webp THEN S_image \o S_webp
            ELSE IF fmt = S_svg THEN S_image \o S_svg \o <<"+", "x", "m", "l">>
            ELSE IF fmt = S_bmp THEN S_image \o S_bmp
            ELSE S_image \o fmt
       ELSE fmt

\* mimetypes.guess_extension on the types the model uses; <<>> stands for None
guess_extension(mime_type) ==
    IF mime_type = S_image \o S_png THEN <<".">> \o S_png
    ELSE IF mime_type = S_image \o S_gif THEN <<".">> \o S_gif
    ELSE IF mime_type = S_image \o S_bmp THEN <<".">> \o S_bmp
    ELSE IF mime_type = S_image \o S_svg \o <<"+", "x", "m", "l">>
         THEN <<".">> \o S_svg
    ELSE IF mime_type = S_video \o <<"m", "p", "4">> THEN <<".", "m", "p", "4">>
    ELSE <<>>

extension_from_mime(mime_type) ==
    IF mime_type = S_image \o S_webp THEN <<".">> \o S_webp
    ELSE IF mime_type = S_video \o <<"w", "e", "b", "m">>
         THEN <<".", "w", "e", "b", "m">>
    ELSE IF mime_type \in {S_image \o S_jpg, S_image \o S_jpeg}
         THEN <<".">> \o S_jpg
    ELSE IF guess_extension(mime_type) = <<".", "j", "p", "e">>
         THEN <<".">> \o S_jpg
    ELSE guess_extension(mime_type)

\* fmt is a JSON value: None and "" are falsy
get_extension(url, fmt) ==
    IF has_extension(url) THEN SplitExt(BeforeQuery(url))
    ELSE IF Truthy(fmt) /\ fmt.t = "str" THEN extension_from_mime(normalize_mime(fmt.s))
    ELSE <<>>

----------------------------------------------------------------------------
(* Identifier Resolver: retrieve-from-sheet.py, parse_nft_url *)

\* number of hex characters of a contract address, {40} in the patterns
ContractHexLen == 40

\* the pair (None, None)
NoneNone == <<Null, Null>>

S_assets == <<"/", "a", "s", "s", "e", "t", "s", "/">>

S_ethereum == <<"e", "t", "h", "e", "r", "e", "u", "m", "/">>

S_eth == <<"e", "t", "h", "/">>

S_token == <<"/", "t", "o", "k", "e", "n", "/">>

\* ([0-9a-fA-Fx]+)<sep>(\d+) matched at position p; sep is one character
LooseContractThenToken(s, p, sep) ==
    LET n1 == RunLen(s, p, HexOrX)
        q  == p + n1 + 1
        n2 == RunLen(s, q, Digits)
    IN IF n1 >= 1 /\ MatchAt(s, p + n1, <<sep>>) /\ n2 >= 1
       THEN <<Str(SubSeq(s, p, p + n1 - 1)), Str(SubSeq(s, q, q + n2 - 1))>>
       ELSE NoneNone

\* /assets/(?:ethereum|eth)/([0-9a-fA-Fx]+)/(\d+) matched at position i
OpenseaAt(s, i) ==
    IF ~MatchAt(s, i, S_assets) THEN NoneNone
    ELSE IF MatchAt(s, i + Len(S_assets), S_ethereum)
         THEN LooseContractThenToken(s, i + Len(S_assets) + Len(S_ethereum), "/")
    ELSE IF MatchAt(s, i + Len(S_assets), S_eth)
         THEN LooseContractThenToken(s, i + Len(S_assets) + Len(S_eth), "/")
    ELSE NoneNone

\* /token/([0-9a-fA-Fx]+):(\d+) matched at position i
RaribleAt(s, i) ==
    IF ~MatchAt(s, i, S_token) THEN NoneNone
    ELSE LooseContractThenToken(s, i + Len(S_token), ":")

\* 0x[0-9a-fA-F]{40} at position i
ContractAt(s, i) ==
    /\ MatchAt(s, i, <<"0", "x">>)
    /\ RunLen(s, i + 2, HexChars) >= ContractHexLen

\* (0x[0-9a-fA-F]{40})[/:]+(\d+) matched at position i
DirectAt(s, i) ==
    LET p  == i + 2 + ContractHexLen
        n1 == RunLen(s, p, {"/", ":"})
        n2 == RunLen(s, p + n1, Digits)
    IN IF ContractAt(s, i) /\ n1 >= 1 /\ n2 >= 1
       THEN <<Str(SubSeq(s, i, p - 1)), Str(SubSeq(s, p + n1, p + n1 + n2 - 1))>>
       ELSE NoneNone

\* re.search: the match at the leftmost position that has one
Leftmost(hits) == CHOOSE i \in hits : \A k \in hits : i <= k

opensea_match(s) ==
    LET hits == {i \in 1..Len(s) : OpenseaAt(s, i) # NoneNone}
    IN IF hits = {} THEN NoneNone ELSE OpenseaAt(s, Leftmost(hits))

rarible_match(s) ==
    LET hits == {i \in 1..Len(s) : RaribleAt(s, i) # NoneNone}
    IN IF hits = {} THEN NoneNone ELSE RaribleAt(s, Leftmost(hits))

direct_match(s) ==
    LET hits == {i \in 1..Len(s) : DirectAt(s, i) # NoneNone}
    IN IF hits = {} THEN NoneNone ELSE DirectAt(s, Leftmost(hits))

\* re.split(r'[,\s]+', url), then re.match on parts[0] and parts[1]
SplitChars == Whitespace \cup {","}

SeparatedPair(s) ==
    LET first == {i \in 1..Len(s) : s[i] \in SplitChars}
        cut   == CHOOSE i \in first : \A k \in first : i <= k
        part0 == Take(s, cut - 1)
        start == cut + RunLen(s, cut, SplitChars)
        n2    == RunLen(s, start, Digits)
    IN IF first = {} THEN NoneNone     \* len(parts) < 2
       ELSE IF ContractAt(part0, 1) /\ n2 >= 1
            THEN <<Str(Take(part0, 2 + ContractHexLen)),
                   Str(SubSeq(s, start, start + n2 - 1))>>
       ELSE NoneNone

parse_nft_url(url0) ==
    LET url     == Strip(url0, Whitespace)
        opensea == opensea_match(url)
        rarible == rarible_match(url)
        direct  == direct_match(url)
    IN IF url = <<>> THEN NoneNone
       ELSE IF opensea # NoneNone THEN opensea
       ELSE IF rarible # NoneNone THEN rarible
       ELSE IF direct # NoneNone THEN direct
       ELSE SeparatedPair(url)

----------------------------------------------------------------------------
(* Metadata records.  A record keeps the optional paths the code reads:    *)
(*   title                      top-level "title"                          *)
(*   metadata                   shape of the top-level "metadata" value:   *)
(*                              "absent", "null", "str" or "dict"          *)
(*   name, description, tags, createdBy, yearCreated                       *)
(*                              keys of the nested metadata object         *)
(*   nested_media               shape of metadata.media: "absent", "null"  *)
(*                              (any non-dict) or "dict"                   *)
(*   uri, mimeType              keys of metadata.media                     *)
(*   media                      the top-level media list, each element     *)
(*                              [gateway, raw, format]                     *)

\* metadata.get("metadata", {}): the nested object can be read with .get
SectionReadable(md) == md.metadata \in {"absent", "dict"}

\* metadata.get("metadata", {}).get(key)
SectionGet(md, key) == IF md.metadata = "dict" THEN md[key] ELSE Absent

\* metadata.get("metadata", {}).get("media", {}) is a dict
NestedMediaIsDict(md) ==
    \/ md.metadata = "absent"
    \/ md.metadata = "dict" /\ md.nested_media \in {"absent", "dict"}

\* nested_media.get(key) on that dict
NestedGet(md, key) ==
    IF md.metadata = "dict" /\ md.nested_media = "dict" THEN md[key] ELSE Absent

S_token_dash == <<"t", "o", "k", "e", "n", "-">>

S_token_json == <<"-", "t", "o", "k", "e", "n", ".", "j", "s", "o", "n">>

S_json == <<".", "j", "s", "o", "n">>

\* metadata.get("metadata", {}).get("name", metadata.get("title", f"token-{token_id}"))
\* dict.get gives its default only when the key is missing
NftName(md, id) ==
    IF SectionGet(md, "name").t # "absent" THEN SectionGet(md, "name")
    ELSE IF md.title.t # "absent" THEN md.title
    ELSE Str(S_token_dash \o IntToStr(id))

----------------------------------------------------------------------------
(* Events of a run, in order, and the output directory *)

Ev(e, tag, s, o, n) == [e |-> e, tag |-> tag, s |-> s, o |-> o, n |-> n]

\* a record with no key at all
EmptyRecord ==
    [ title |-> Absent, metadata |-> "absent", name |-> Absent,
      description |-> Absent, tags |-> Absent, createdBy |-> Absent,
      yearCreated |-> Absent, nested_media |-> "absent", uri |-> Absent,
      mimeType |-> Absent, media |-> <<>> ]

MediaFile(name, url) ==
    [name |-> name, kind |-> "media", url |-> url, record |-> EmptyRecord, keys |-> {}]

FullJson(name, md) ==
    [name |-> name, kind |-> "full", url |-> <<>>, record |-> md, keys |-> {}]

SimpleJson(name, keys) ==
    [name |-> name, kind |-> "simple", url |-> <<>>, record |-> EmptyRecord, keys |-> keys]

\* open(path, "w") and write: a file of that name is replaced
WriteFile(dir, f) == {g \in dir : g.name # f.name} \cup {f}

\* outcomes of requests.get: status 200, another status, an exception
Outcomes == {"ok", "status", "exception"}

----------------------------------------------------------------------------
(* extractor-alchemy.py: download_file, prefer_alchemy_gateway,            *)
(* save_all_resources.  st is [events, files, raised].                     *)

\* os.path.join("artwork", f"{base_filename}{extension}")
MediaFilename(url, base_filename, fmt) == base_filename \o get_extension(url.s, fmt)

\* a slip: a failed download raises out of download_file
download_file_propagates(st, url, base_filename, fmt, tag, outcome) ==
    IF ~Truthy(url) THEN st
    ELSE IF outcome = "ok" /\ MediaFilename(url, base_filename, fmt) # <<>>
    THEN [st EXCEPT
            !.events = Append(@, Ev("download", tag, url.s, outcome, 0)),
            !.files = WriteFile(@, MediaFile(MediaFilename(url, base_filename, fmt),
                                             url.s))]
    ELSE [st EXCEPT
            !.events = Append(@, Ev("download", tag, url.s, outcome, 0)),
            !.raised = TRUE]

\* the file is written on status 200; another status, an exception of the
\* request, or an empty file name (open of the directory itself raises) are
\* logged and leave no file
download_file(st, url, base_filename, fmt, tag, outcome) ==
    IF ~Truthy(url) THEN st
    ELSE IF outcome = "ok" /\ MediaFilename(url, base_filename, fmt) # <<>>
    THEN [st EXCEPT
            !.events = Append(@, Ev("download", tag, url.s, outcome, 0)),
            !.files = WriteFile(@, MediaFile(MediaFilename(url, base_filename, fmt),
                                             url.s))]
    ELSE [st EXCEPT
            !.events = Append(@, Ev("download", tag, url.s, outcome, 0))]

prefer_alchemy_gateway(media_item) ==
    IF Truthy(media_item.gateway) THEN media_item.gateway ELSE media_item.raw

\* a in b, for strings
IsSubstring(a, b) == \E i \in 1..(Len(b) + 1) : MatchAt(b, i, a)

\* lines 128-138: the primary media of metadata.media.uri
HasPrimary(md) == NestedMediaIsDict(md) /\ Truthy(NestedGet(md, "uri"))

PrimaryStep(st, md, base_filename, o1) ==
    IF HasPrimary(md)
    THEN download_file(st, NestedGet(md, "uri"), base_filename,
                       IF NestedGet(md, "mimeType").t = "absent" THEN Str(<<>>)
                       ELSE NestedGet(md, "mimeType"),
                       "Primary", o1)
    ELSE st

\* lines 148-154
is_duplicate(md, gateway_url) ==
    /\ HasPrimary(md)
    /\ Truthy(gateway_url)
    /\ \/ IsSubstring(NestedGet(md, "uri").s, gateway_url.s)
       \/ IsSubstring(gateway_url.s, NestedGet(md, "uri").s)

\* lines 141-164: the thumbnail of the top-level media list
ThumbnailStep(st, md, base_filename, thumbnails, o2) ==
    IF st.raised \/ ~thumbnails \/ Len(md.media) = 0 THEN st
    ELSE LET media_item  == md.media[1]
             gateway_url == prefer_alchemy_gateway(media_item)
         IN IF Truthy(gateway_url) /\ ~is_duplicate(md, gateway_url)
            THEN download_file(st, gateway_url, base_filename, media_item.format,
                               "Thumbnail", o2)
            ELSE st

SimplifiedKeys == {"name", "description", "tags", "createdBy", "yearCreated"}

\* lines 166-193: the two JSON files
JsonStep(st, md, base_filename) ==
    IF st.raised THEN st
    ELSE LET full   == FullJson(base_filename \o S_token_json, md)
             simple == SimpleJson(base_filename \o S_json,
                                  {k \in SimplifiedKeys : Truthy(SectionGet(md, k))})
         IN [st EXCEPT
               !.events = @ \o << Ev("write", "full", full.name, "ok", 0),
                                  Ev("write", "simple", simple.name, "ok", 0) >>,
               !.files = WriteFile(WriteFile(@, full), simple)]

\* the whole function: dir is the output directory before the call, o1 and
\* o2 the outcomes of the two requests; the result is [events, files, raised]
save_all_resources(md, id, thumbnails, dir, o1, o2) ==
    LET st0 == [events |-> <<Ev("persist_begin", "", <<>>, "", id)>>,
                files |-> dir, raised |-> FALSE]
        \* line 122 raises on a "metadata" that is no dict, line 123 on a
        \* name that is no string
        raises == ~SectionReadable(md) \/ NftName(md, id).t # "str"
        base_filename == sanitize_filename(NftName(md, id).s)
        st3 == JsonStep(ThumbnailStep(PrimaryStep(st0, md, base_filename, o1),
                                      md, base_filename, thumbnails, o2),
                        md, base_filename)
        \* line 194: whatever was raised is caught and logged
        done == IF raises
                THEN [st0 EXCEPT !.raised = TRUE,
                                 !.events = Append(@, Ev("exception", "", <<>>, "", id))]
                ELSE IF st3.raised
                THEN [st3 EXCEPT !.events = Append(@, Ev("exception", "", <<>>, "", id))]
                ELSE st3
    IN [done EXCEPT !.events = Append(@, Ev("persist_end", "", <<>>, "", id))]

----------------------------------------------------------------------------
(* Values of the variables a run does not use *)

\* what fetch_metadata returns: a record, or None
Some(r) == [present |-> TRUE, value |-> r]

None == [present |-> FALSE, value |-> EmptyRecord]

\* the --count argument: None, or a number
NoLimit == [none |-> TRUE, n |-> 0]

Limit(n) == [none |-> FALSE, n |-> n]

NoPure == input = <<>> /\ hint = Absent /\ output = <<>>

NoRange == start_id = 0 /\ end_id = 0

NoRows ==
    /\ rows = <<>>
    /\ start_row = 1
    /\ count = NoLimit
    /\ current_row_idx = 0
    /\ processed_count = 0
    /\ skipped_count = 0

NoBatch == metadata = None /\ token_id = 0 /\ NoRange /\ NoRows

----------------------------------------------------------------------------
(* Bounds of the model *)

\* longest name given to the sanitizer
MaxNameLen == 5

\* longest path (after its leading slash) of a URL given to the resolver
MaxPathLen == 4

\* longest token text of a cell given to the identifier resolver
MaxTokenLen == 2

----------------------------------------------------------------------------
(* The filename sanitizer applied to a name, then to its own result *)

SanAlphabet == {" ", "-", "a", "/", "#"}

Sanitize ==
    /\ pc = "sanitize"
    /\ output' = sanitize_filename(input)
    /\ pc' = "sanitized"
    /\ UNCHANGED <<DOWNLOAD_THUMBNAILS, input, hint, metadata, rangeVars,
                   token_id, rowVars, files, events>>

\* the first result is kept in events
SanitizeAgain ==
    /\ pc = "sanitized"
    /\ events' = <<output>>
    /\ output' = sanitize_filename(output)
    /\ pc' = "resanitized"
    /\ UNCHANGED <<DOWNLOAD_THUMBNAILS, input, hint, metadata, rangeVars,
                   token_id, rowVars, files>>

InitSan ==
    /\ pc = "sanitize"
    /\ input \in SeqsUpTo(SanAlphabet, MaxNameLen)
    /\ output = <<>>
    /\ hint = Absent
    /\ DOWNLOAD_THUMBNAILS = TRUE
    /\ NoBatch
    /\ files = {}
    /\ events = <<>>

NextSan == Sanitize \/ SanitizeAgain

SpecSan == InitSan /\ [][NextSan]_vars

----------------------------------------------------------------------------
(* The format resolver applied to a URL and a hint.  The URL is kept by   *)
(* its components, so that its path component is known; the code sees the *)
(* string UrlOf makes of them.                                             *)

S_https == <<"h", "t", "t", "p", "s", ":", "/", "/">>

UrlOf(u) == S_https \o u.host \o u.path \o u.query \o u.fragment

UrlHosts == {<<"h">>, <<"h", ".", "i", "o">>}

UrlPaths == {<<>>} \cup {<<"/">> \o s : s \in SeqsUpTo({"a", ".", "/"}, MaxPathLen)}

UrlQueries == {<<>>, <<"?", "x", "=", "1">>, <<"?", "f", "=", ".", "a", "a">>}

UrlFragments == {<<>>, <<"#", "f">>}

Hints == {Absent, Null, Str(<<>>), Str(S_png), Str(S_image \o S_jpeg)}

ResolveExtension ==
    /\ pc = "resolve"
    /\ output' = get_extension(UrlOf(input), hint)
    /\ pc' = "resolved"
    /\ UNCHANGED <<DOWNLOAD_THUMBNAILS, input, hint, metadata, rangeVars,
                   token_id, rowVars, files, events>>

InitExt ==
    /\ pc = "resolve"
    /\ input \in [host : UrlHosts, path : UrlPaths, query : UrlQueries,
                  fragment : UrlFragments]
    /\ hint \in Hints
    /\ output = <<>>
    /\ DOWNLOAD_THUMBNAILS = TRUE
    /\ NoBatch
    /\ files = {}
    /\ events = <<>>

NextExt == ResolveExtension

SpecExt == InitExt /\ [][NextExt]_vars

----------------------------------------------------------------------------
(* The identifier resolver applied to one cell of text *)

HexRun(n) == [i \in 1..n |-> IF i % 2 = 1 THEN "A" ELSE "b"]

\* a well-formed contract address
GoodContract == <<"0", "x">> \o HexRun(ContractHexLen)

CellPrefixes ==
    { <<>>, <<" ">>, S_token, S_assets \o S_eth,
      S_https \o <<"o", ".", "i", "o">> \o S_assets \o S_ethereum }

CellContracts ==
    { <<>>, <<"0", "x">>, GoodContract,
      <<"0", "x">> \o HexRun(ContractHexLen - 1),
      <<"0", "x">> \o HexRun(ContractHexLen + 1) }

CellSeparators == {<<>>, <<"/">>, <<":">>, <<" ">>, <<",">>}

CellTokens == SeqsUpTo({"7", "z"}, MaxTokenLen)

CellSuffixes == {<<>>, <<"/", "9">>}

Cells ==
    { p \o c \o s \o k \o x :
        p \in CellPrefixes, c \in CellContracts, s \in CellSeparators,
        k \in CellTokens, x \in CellSuffixes }

Parse ==
    /\ pc = "parse"
    /\ output' = parse_nft_url(input)
    /\ pc' = "parsed"
    /\ UNCHANGED <<DOWNLOAD_THUMBNAILS, input, hint, metadata, rangeVars,
                   token_id, rowVars, files, events>>

InitParse ==
    /\ pc = "parse"
    /\ input \in Cells
    /\ output = NoneNone
    /\ hint = Absent
    /\ DOWNLOAD_THUMBNAILS = TRUE
    /\ NoBatch
    /\ files = {}
    /\ events = <<>>

NextParse == Parse

SpecParse == InitParse /\ [][NextParse]_vars

----------------------------------------------------------------------------
(* The persister applied to one metadata record *)

\* most elements of a top-level media list
MaxMediaItems == 1

U_a_png == S_https \o <<"x", "/", "a", ".", "p", "n", "g">>

U_a == S_https \o <<"x", "/", "a">>

U_img_png == S_https \o <<"h", "o", "s", "t", "/", "i", "m", "g", ".", "p", "n", "g">>

S_Cool_1 == <<"C", "o", "o", "l", " ", "#", "1">>

MediaItems ==
    [ gateway : {Absent, Str(<<>>), Str(U_a_png), Str(U_img_png)},
      raw     : {Absent, Str(U_a), Str(U_img_png)},
      format  : {Absent, Str(S_png)} ]

\* the lists differ in their first element; the later ones are never read
MediaLists ==
    {<<>>} \cup { [i \in 1..n |-> m] : n \in 1..MaxMediaItems, m \in MediaItems }

Titles == {Absent, Null, Str(S_Cool_1)}

Names == {Absent, Null, Num, Str(<<>>), Str(<<"A", " ", "B">>)}

Uris == {Absent, Str(<<>>), Str(U_a_png), Str(U_a)}

\* the nested metadata object when it is a dict
NestedObjects ==
    { [EmptyRecord EXCEPT !.metadata = "dict", !.name = n, !.description = d,
                          !.nested_media = "dict", !.uri = u, !.mimeType = mt] :
        n \in Names, d \in {Absent, Str(<<"d">>)}, u \in Uris,
        mt \in {Absent, Str(S_image \o S_png)} }
    \cup
    { [EmptyRecord EXCEPT !.metadata = "dict", !.name = n, !.nested_media = nm] :
        n \in Names, nm \in {"absent", "null"} }
    \cup
    { [EmptyRecord EXCEPT !.metadata = s] : s \in {"absent", "null", "str"} }

Records ==
    { [o EXCEPT !.title = ti, !.media = ml] :
        o \in NestedObjects, ti \in Titles, ml \in MediaLists }

SaveAllResources ==
    /\ pc = "save"
    /\ \E o1 \in Outcomes, o2 \in Outcomes :
         LET r == save_all_resources(metadata.value, token_id,
                                     DOWNLOAD_THUMBNAILS, files, o1, o2)
         IN /\ events' = events \o r.events
            /\ files' = r.files
    /\ pc' = "saved"
    /\ UNCHANGED <<DOWNLOAD_THUMBNAILS, pureVars, metadata, rangeVars, token_id,
                   rowVars>>

InitSave ==
    /\ pc = "save"
    /\ metadata \in {Some(r) : r \in Records}
    /\ DOWNLOAD_THUMBNAILS \in BOOLEAN
    /\ token_id = 7
    /\ NoPure
    /\ NoRange
    /\ NoRows
    /\ files = {}
    /\ events = <<>>

NextSave == SaveAllResources

SpecSave == InitSave /\ [][NextSave]_vars

----------------------------------------------------------------------------
(* The metadata collaborator, as both programs call it *)

\* fetch_metadata: the JSON body on status 200, None on another status or
\* on an exception
fetch_metadata(outcome, body) == IF outcome = "ok" THEN Some(body) ELSE None

\* "if metadata:" holds of a record with at least one key
MetadataTruthy(m) == m.present /\ m.value # EmptyRecord

\* what the caller of fetch_metadata sees of its result
Fetched(m) == IF MetadataTruthy(m) THEN "metadata" ELSE "none"

\* a record whose title is null
NullTitleRecord == [EmptyRecord EXCEPT !.title = Null]

\* a record with a Primary and a distinct Thumbnail
TwoMediaRecord ==
    [EmptyRecord EXCEPT
        !.metadata = "dict", !.name = Str(<<"A", " ", "B">>),
        !.nested_media = "dict", !.uri = Str(U_a_png),
        !.media = <<[gateway |-> Str(U_img_png), raw |-> Absent, format |-> Absent]>>]

\* a record with a Thumbnail and neither name nor title
ThumbnailRecord ==
    [EmptyRecord EXCEPT !.media = <<[gateway |-> Str(U_img_png), raw |-> Absent,
                                     format |-> Absent]>>]

\* the bodies the collaborator answers with in range mode
FetchRecords == {ThumbnailRecord, NullTitleRecord, TwoMediaRecord, EmptyRecord}

\* a record with a title and nothing else
TitleRecord == [EmptyRecord EXCEPT !.title = Str(S_Cool_1)]

\* the bodies the collaborator answers with in row mode
RowRecords == {TitleRecord, NullTitleRecord, EmptyRecord}

----------------------------------------------------------------------------
(* Range mode: extractor-alchemy.py, browse_nfts *)

\* largest token id of a range
MaxTokenId == 2

\* a slip: range(start_id, end_id)
InRangeExclusive(id, last) == id < last

\* for token_id in range(start_id, end_id + 1)
InRange(id, last) == id <= last

RangeFetch ==
    /\ pc = "fetch"
    /\ InRange(token_id, end_id)
    /\ \E o \in Outcomes, body \in FetchRecords :
         /\ metadata' = fetch_metadata(o, body)
         /\ events' = Append(events, Ev("fetch", "", <<>>, Fetched(metadata'),
                                        token_id))
         /\ IF MetadataTruthy(metadata')
            THEN pc' = "persist" /\ token_id' = token_id
            ELSE pc' = "fetch" /\ token_id' = token_id + 1
    /\ UNCHANGED <<DOWNLOAD_THUMBNAILS, pureVars, rangeVars, rowVars, files>>

RangePersist ==
    /\ pc = "persist"
    /\ \E o1 \in Outcomes, o2 \in Outcomes :
         LET r == save_all_resources(metadata.value, token_id,
                                     DOWNLOAD_THUMBNAILS, files, o1, o2)
         IN /\ events' = events \o r.events
            /\ files' = r.files
    /\ token_id' = token_id + 1
    /\ pc' = "fetch"
    /\ UNCHANGED <<DOWNLOAD_THUMBNAILS, pureVars, metadata, rangeVars, rowVars>>

RangeDone ==
    /\ pc = "fetch"
    /\ ~InRange(token_id, end_id)
    /\ pc' = "done"
    /\ UNCHANGED <<DOWNLOAD_THUMBNAILS, pureVars, metadata, rangeVars, token_id,
                   rowVars, files, events>>

InitRange ==
    /\ pc = "fetch"
    /\ start_id \in 0..MaxTokenId
    /\ end_id \in 0..MaxTokenId
    /\ token_id = start_id
    /\ metadata = None
    /\ DOWNLOAD_THUMBNAILS = TRUE
    /\ NoPure
    /\ NoRows
    /\ files = {}
    /\ events = <<>>

NextRange == RangeFetch \/ RangePersist \/ RangeDone

SpecRange == InitRange /\ [][NextRange]_vars

----------------------------------------------------------------------------
(* Request listener: extractor-alchemy.py, parse_token_id and do_GET *)

\* value of one digit in a base up to 16
DigitValue(c) ==
    IF c \in Digits
    THEN (CHOOSE i \in DOMAIN DigitSeq : DigitSeq[i] = c) - 1
    ELSE 9 + (CHOOSE i \in 1..6 : LowerSeq[i] = LowerChar(c))

\* the digits int() accepts in a base
BaseDigits(base) == IF base = 16 THEN HexChars ELSE Digits

\* digits with single underscores between them
DigitGroups(s, base) ==
    /\ s # <<>>
    /\ \A i \in DOMAIN s : s[i] \in BaseDigits(base) \cup {"_"}
    /\ s[1] # "_" /\ s[Len(s)] # "_"
    /\ \A i \in 1..(Len(s) - 1) : ~(s[i] = "_" /\ s[i + 1] = "_")

RECURSIVE DigitsValue(_, _)
DigitsValue(s, base) ==
    IF s = <<>> THEN 0
    ELSE IF s[Len(s)] = "_" THEN DigitsValue(Take(s, Len(s) - 1), base)
    ELSE base * DigitsValue(Take(s, Len(s) - 1), base) + DigitValue(s[Len(s)])

\* int(text, base) for base 10 or 16: surrounding whitespace, a sign, for
\* base 16 an optional 0x prefix, then digits; ok is FALSE on ValueError
PyInt(text, base) ==
    LET t      == Strip(text, Whitespace)
        signed == t # <<>> /\ t[1] \in {"+", "-"}
        body   == IF signed THEN Drop(t, 1) ELSE t
        prefix == base = 16 /\ (MatchAt(body, 1, <<"0", "x">>)
                                \/ MatchAt(body, 1, <<"0", "X">>))
        rest   == IF prefix THEN Drop(body, 2) ELSE body
        digits == IF prefix /\ rest # <<>> /\ rest[1] = "_"
                  THEN Drop(rest, 1) ELSE rest
    IN IF DigitGroups(digits, base)
       THEN [ok |-> TRUE,
             n  |-> IF signed /\ t[1] = "-" THEN 0 - DigitsValue(digits, base)
                    ELSE DigitsValue(digits, base)]
       ELSE [ok |-> FALSE, n |-> 0]

\* what parse_token_id does with a value: it returns an int, returns None on
\* ValueError, or raises: None has no startswith and only ValueError is caught
TokenInt(n) == [r |-> "int", n |-> n]

TokenNone == [r |-> "none", n |-> 0]

TokenRaise == [r |-> "raise", n |-> 0]

parse_token_id(value) ==
    IF value.t # "str" THEN TokenRaise
    ELSE LET i == IF MatchAt(value.s, 1, <<"0", "x">>)
                  THEN PyInt(value.s, 16) ELSE PyInt(value.s, 10)
         IN IF i.ok THEN TokenInt(i.n) ELSE TokenNone

\* query_params.get(key, [default])[0]: parse_qs leaves out a parameter whose
\* value is blank
QueryParam(raw, default) ==
    IF raw.t = "str" /\ raw.s # <<>> THEN raw ELSE default

\* the three values do_GET reads from the query string
ContractParam(request) == QueryParam(request.contract, Absent)

FirstParam(request) == QueryParam(request.first, Absent)

LastParam(request) == QueryParam(request.last, FirstParam(request))

S_bad_request == <<"I", "n", "v", "a", "l", "i", "d">>

\* do_GET up to the call of browse_nfts, or to the end of the 400 branch.
\* An exception of parse_token_id leaves do_GET before any send_response.
do_GET ==
    /\ pc = "request"
    /\ LET start == parse_token_id(FirstParam(input))
           end   == parse_token_id(LastParam(input))
       IN IF start.r = "raise" \/ end.r = "raise"
          THEN /\ pc' = "raised"
               /\ UNCHANGED <<rangeVars, token_id, events>>
          ELSE IF Truthy(ContractParam(input)) /\ start.r = "int" /\ end.r = "int"
          THEN /\ start_id' = start.n
               /\ end_id' = end.n
               /\ token_id' = start.n
               /\ events' = Append(events,
                                   Ev("browse_nfts", "", ContractParam(input).s,
                                      "", start.n))
               /\ pc' = "fetch"
          ELSE /\ events' = events \o
                     << Ev("send_response", "", <<>>, "", 400),
                        Ev("write", "", S_bad_request, "", 0),
                        Ev("end_headers", "", <<>>, "", 0) >>
               /\ pc' = "responded"
               /\ UNCHANGED <<rangeVars, token_id>>
    /\ UNCHANGED <<DOWNLOAD_THUMBNAILS, pureVars, metadata, rowVars, files>>

\* do_GET after browse_nfts returned
SendOk ==
    /\ pc = "done"
    /\ events' = events \o << Ev("send_response", "", <<>>, "", 200),
                              Ev("end_headers", "", <<>>, "", 0) >>
    /\ pc' = "responded"
    /\ UNCHANGED <<DOWNLOAD_THUMBNAILS, pureVars, metadata, rangeVars, token_id,
                   rowVars, files>>

S_0xc == <<"0", "x", "c">>

\* the values a request gives NFT_CONTRACT_ADDRESS: none, blank, an address
ContractTexts == {Absent, Str(<<>>), Str(S_0xc)}

\* the values a request gives a token id parameter: none, blank, decimal,
\* hexadecimal, and texts that are no integer
TokenTexts ==
    {Absent, Str(<<>>)}
        \cup {Str(IntToStr(i)) : i \in 0..MaxTokenId}
        \cup {Str(<<"0", "x", "1">>), Str(<<"0", "x">>), Str(<<"a">>)}

Requests == [contract : ContractTexts, first : TokenTexts, last : TokenTexts]

InitListen ==
    /\ pc = "request"
    /\ input \in Requests
    /\ hint = Absent
    /\ output = <<>>
    /\ start_id = 0
    /\ end_id = 0
    /\ token_id = 0
    /\ metadata = None
    /\ DOWNLOAD_THUMBNAILS = TRUE
    /\ NoRows
    /\ files = {}
    /\ events = <<>>

NextListen == do_GET \/ RangeFetch \/ RangePersist \/ RangeDone \/ SendOk

SpecListen == InitListen /\ [][NextListen]_vars

----------------------------------------------------------------------------
(* Row mode: retrieve-from-sheet.py, process_rows *)

\* most rows of a spreadsheet
MaxRows == 4

\* largest count limit
MaxCount == 2

\* a header row, a fully blank row, and a row naming a token
HeaderRow == << <<"U", "R", "L">> >>

BlankRow == << <<>>, <<>>, <<>> >>

TokenRow == << GoodContract \o <<" ", "7", "8", "9">> >>

RowKinds == {HeaderRow, BlankRow, TokenRow}

RECURSIVE StrToInt(_)
StrToInt(s) ==
    IF s = <<>> THEN 0
    ELSE 10 * StrToInt(Take(s, Len(s) - 1))
         + ((CHOOSE i \in DOMAIN DigitSeq : DigitSeq[i] = s[Len(s)]) - 1)

\* not row or all(cell.strip() == '' for cell in row)
IsBlankRow(row) == \A i \in DOMAIN row : Strip(row[i], Whitespace) = <<>>

\* the cell scan of lines 187-194: the first cell from which a contract and
\* a token are parsed, 0 when there is none
Parsable(cell) ==
    LET r == parse_nft_url(cell)
    IN Strip(cell, Whitespace) # <<>> /\ Truthy(r[1]) /\ Truthy(r[2])

FirstParsable(row) ==
    LET cells == {i \in DOMAIN row : Parsable(row[i])}
    IN IF cells = {} THEN 0
       ELSE CHOOSE i \in cells : \A k \in cells : i <= k

\* lines 187-202 on a row: what parse_nft_url gives on the first cell the
\* scan accepts, (None, None) when it accepts none
ScanRow(row) ==
    IF FirstParsable(row) = 0 THEN NoneNone
    ELSE parse_nft_url(row[FirstParsable(row)])

\* ScanRow, tabulated over the rows of the model
ScanOfRow == [row \in RowKinds |-> ScanRow(row)]

\* a slip: the header row is stepped over
StartIdxAfterHeader(row) == IF row < 1 THEN 1 ELSE row

\* lines 155-157
StartIdx(row) == IF row - 1 < 0 THEN 0 ELSE row - 1

\* a slip: one item too many
LimitReachedLate(limit, processed) == ~limit.none /\ processed > limit.n

\* count is not None and processed_count >= count
LimitReached(limit, processed) == ~limit.none /\ processed >= limit.n

\* one pass through lines 170-200: the row is skipped, or its token is parsed
RowExamine ==
    /\ pc = "loop"
    /\ current_row_idx < Len(rows)
    /\ ~LimitReached(count, processed_count)
    /\ current_row_idx' = current_row_idx + 1
    /\ events' = Append(events, Ev("examine", "", <<>>, "", current_row_idx + 1))
    /\ LET row == rows[current_row_idx + 1]
       IN IF IsBlankRow(row) \/ ScanOfRow[row] = NoneNone
          THEN /\ skipped_count' = skipped_count + 1
               /\ pc' = "loop"
               /\ UNCHANGED <<output, token_id>>
          ELSE /\ output' = ScanOfRow[row]
               /\ token_id' = StrToInt(output'[2].s)
               /\ pc' = "fetch"
               /\ UNCHANGED skipped_count
    /\ UNCHANGED <<DOWNLOAD_THUMBNAILS, input, hint, metadata, rangeVars, rows,
                   start_row, count, processed_count, files>>

\* lines 214-221 when no metadata comes back
RowFetch ==
    /\ pc = "fetch"
    /\ \E o \in Outcomes, body \in RowRecords :
         /\ metadata' = fetch_metadata(o, body)
         /\ events' = Append(events, Ev("fetch", "", output[1].s,
                                        Fetched(metadata'), token_id))
         /\ IF MetadataTruthy(metadata')
            THEN pc' = "persist" /\ UNCHANGED skipped_count
            ELSE pc' = "loop" /\ skipped_count' = skipped_count + 1
    /\ UNCHANGED <<DOWNLOAD_THUMBNAILS, pureVars, rangeVars, token_id, rows,
                   start_row, count, current_row_idx, processed_count, files>>

\* lines 216-217
RowPersist ==
    /\ pc = "persist"
    /\ \E o1 \in Outcomes, o2 \in Outcomes :
         LET r == save_all_resources(metadata.value, token_id,
                                     DOWNLOAD_THUMBNAILS, files, o1, o2)
         IN /\ events' = events \o r.events
            /\ files' = r.files
    /\ processed_count' = processed_count + 1
    /\ pc' = "loop"
    /\ UNCHANGED <<DOWNLOAD_THUMBNAILS, pureVars, metadata, rangeVars, token_id,
                   rows, start_row, count, current_row_idx, skipped_count>>

\* the loop ends: the rows are exhausted or the limit is reached
RowDone ==
    /\ pc = "loop"
    /\ current_row_idx >= Len(rows) \/ LimitReached(count, processed_count)
    /\ pc' = "done"
    /\ UNCHANGED <<DOWNLOAD_THUMBNAILS, pureVars, metadata, rangeVars, token_id,
                   rowVars, files, events>>

Sheets == UNION { [1..n -> RowKinds] : n \in 0..MaxRows }

InitRow ==
    /\ pc = "loop"
    /\ rows \in Sheets
    /\ start_row \in 0..2
    /\ count \in {NoLimit} \cup {Limit(n) : n \in 0..MaxCount}
    /\ current_row_idx = StartIdx(start_row)
    /\ processed_count = 0
    /\ skipped_count = 0
    /\ metadata = None
    /\ token_id = 0
    /\ DOWNLOAD_THUMBNAILS = TRUE
    /\ input = <<>> /\ hint = Absent /\ output = NoneNone
    /\ NoRange
    /\ files = {}
    /\ events = <<>>

NextRow == RowExamine \/ RowFetch \/ RowPersist \/ RowDone

SpecRow == InitRow /\ [][NextRow]_vars

----------------------------------------------------------------------------
(* Properties of the pure functions *)

\* C8: sanitize_filename is idempotent, and its result holds no space, no
\* unsafe character, no two consecutive hyphens and no leading or trailing
\* hyphen.
CleanName(s) ==
    /\ \A i \in DOMAIN s : s[i] # " " /\ s[i] \notin UnsafeChars
    /\ \A i \in 1..(Len(s) - 1) : ~(s[i] = "-" /\ s[i + 1] = "-")
    /\ s # <<>> => s[1] # "-" /\ s[Len(s)] # "-"

C8_SanitizeIdempotent ==
    /\ pc = "sanitized" => CleanName(output)
    /\ pc = "resanitized" => output = events[1] /\ CleanName(output)

\* a name whose hyphens meet only once an unsafe character is removed has
\* been sanitized twice
C8_Witness ==
    /\ pc = "resanitized"
    /\ input = <<"a", " ", "/", "-", "a">>
    /\ output = <<"a", "-", "a">>

\* C7: a suffix of the URL's path component is the result whatever the hint;
\* with no such suffix and no hint the result is empty.
PathSuffix(path) == Drop(path, RFind(path, ".") - 1)

C7_PathDecidesExtension ==
    pc = "resolved" =>
        /\ EndsInExtension(input.path) => output = PathSuffix(input.path)
        /\ (~EndsInExtension(input.path) /\ hint \in {Absent, Null})
               => output = <<>>

\* C9: parse_nft_url yields (None, None) or a well-formed TokenRef, and
\* (None, None) on empty or whitespace-only text.
WellFormedTokenRef(r) ==
    /\ r[1].t = "str" /\ r[2].t = "str"
    /\ Len(r[1].s) = 2 + ContractHexLen
    /\ Take(r[1].s, 2) = <<"0", "x">>
    /\ \A i \in 3..Len(r[1].s) : r[1].s[i] \in HexChars
    /\ r[2].s # <<>>
    /\ \A i \in DOMAIN r[2].s : r[2].s[i] \in Digits

C9_WellFormedOrNone ==
    pc = "parsed" =>
        /\ output = NoneNone \/ WellFormedTokenRef(output)
        /\ Strip(input, Whitespace) = <<>> => output = NoneNone

----------------------------------------------------------------------------
(* Properties of the persister *)

\* the download attempts of the run, in order
Downloads == SelectSeq(events, LAMBDA e : e.e = "download")

Attempt(tag, url) == [tag |-> tag, url |-> url]

AttemptsMade == [i \in DOMAIN Downloads |-> Attempt(Downloads[i].tag, Downloads[i].s)]

\* the nested metadata.media object has a non-empty uri
PrimarySelected(md) ==
    md.metadata = "dict" /\ md.nested_media = "dict" /\ Truthy(md.uri)

\* URL of the first element of the top-level media list: gateway, else raw
ThumbnailUrl(md) ==
    IF Truthy(md.media[1].gateway) THEN md.media[1].gateway ELSE md.media[1].raw

ThumbnailSelected(md) ==
    /\ DOWNLOAD_THUMBNAILS
    /\ Len(md.media) > 0
    /\ Truthy(ThumbnailUrl(md))
    /\ ~(/\ PrimarySelected(md)
         /\ \/ IsSubstring(md.uri.s, ThumbnailUrl(md).s)
            \/ IsSubstring(ThumbnailUrl(md).s, md.uri.s))

SelectedAttempts(md) ==
    (IF PrimarySelected(md) THEN <<Attempt("Primary", md.uri.s)>> ELSE <<>>)
    \o (IF ThumbnailSelected(md) THEN <<Attempt("Thumbnail", ThumbnailUrl(md).s)>>
        ELSE <<>>)

\* C1: for every record the downloads attempted are the Primary candidate,
\* iff metadata.media has a non-empty uri, then the Thumbnail candidate, iff
\* thumbnails are enabled, the top-level media list is non-empty, its first
\* element's URL is non-empty and it is no duplicate of the Primary; at most
\* two attempts, never the Thumbnail first.
C1_DownloadOrder ==
    pc = "saved" =>
        /\ AttemptsMade = SelectedAttempts(metadata.value)
        /\ Len(Downloads) <= 2

\* names of the files of the output directory
FileNames == {f.name : f \in files}

FailedDownloads == {i \in DOMAIN Downloads : Downloads[i].o # "ok"}

\* the display name the persister reads, when it is a string
BaseFilenameOf(md, id) == sanitize_filename(NftName(md, id).s)

BothJsonWritten(md, id) ==
    /\ FullJson(BaseFilenameOf(md, id) \o S_token_json, md) \in files
    /\ \E f \in files : /\ f.name = BaseFilenameOf(md, id) \o S_json
                        /\ f.kind = "simple"

\* C2: a failed download aborts nothing: after a failed Primary download the
\* selected Thumbnail is still attempted, after any failed downloads both
\* JSON files are written, and a failed candidate writes no media file.
C2_FailureDoesNotAbort ==
    (pc = "saved" /\ FailedDownloads # {}) =>
        /\ BothJsonWritten(metadata.value, token_id)
        /\ (Downloads[1].tag = "Primary" /\ ThumbnailSelected(metadata.value))
               => Len(Downloads) = 2 /\ Downloads[2].tag = "Thumbnail"
        /\ \A i \in FailedDownloads :
               \A f \in files : ~(f.kind = "media" /\ f.url = Downloads[i].s)

\* both candidates were attempted, both failed, and only the JSON files exist
C2_Witness ==
    /\ pc = "saved"
    /\ Len(Downloads) = 2
    /\ Downloads[1].tag = "Primary" /\ Downloads[1].o = "exception"
    /\ Downloads[2].tag = "Thumbnail" /\ Downloads[2].o = "status"
    /\ Cardinality(files) = 2
    /\ BothJsonWritten(metadata.value, token_id)

\* the record {"title": "Cool #1", "media": [{"gateway": "https://host/img.png"}]}
CoolRecord ==
    [EmptyRecord EXCEPT
        !.title = Str(S_Cool_1),
        !.media = <<[gateway |-> Str(U_img_png), raw |-> Absent, format |-> Absent]>>]

CoolSaved ==
    /\ pc = "saved"
    /\ metadata = Some(CoolRecord)
    /\ DOWNLOAD_THUMBNAILS
    /\ Len(Downloads) = 1 /\ Downloads[1].o = "ok"

S_Cool_dash_1 == <<"C", "o", "o", "l", "-", "1">>

S_Cool_dash_hash_1 == <<"C", "o", "o", "l", "-", "#", "1">>

\* the three files of the scenario under the base filename base
ScenarioFiles(base) ==
    { MediaFile(base \o <<".">> \o S_png, U_img_png),
      FullJson(base \o S_token_json, CoolRecord),
      SimpleJson(base \o S_json, {}) }

\* C6 as stated: the scenario writes exactly Cool-1.png, Cool-1-token.json
\* and Cool-1.json.
C6_CoolScenarioAsStated == CoolSaved => files = ScenarioFiles(S_Cool_dash_1)

\* C6 amended: the scenario writes exactly Cool-#1.png (the media bytes),
\* Cool-#1-token.json (the full record) and Cool-#1.json (an empty object):
\* the sanitizer keeps the '#' of the title.
C6_CoolScenario == CoolSaved => files = ScenarioFiles(S_Cool_dash_hash_1)

C6_Witness == CoolSaved /\ Cardinality(files) = 3

----------------------------------------------------------------------------
(* Properties of range mode *)

EventsOf(kind) == SelectSeq(events, LAMBDA e : e.e = kind)

\* number of ids of the inclusive range [start_id, end_id]
RangeSize == IF start_id > end_id THEN 0 ELSE end_id - start_id + 1

RangeOrder ==
    \* one fetch per id, in increasing order from start_id, none beyond end_id
    /\ LET fetches == EventsOf("fetch")
       IN /\ \A k \in DOMAIN fetches : fetches[k].n = start_id + k - 1
          /\ Len(fetches) <= RangeSize
          /\ pc = "done" => Len(fetches) = RangeSize
    /\ \A i \in DOMAIN events :
         \* the persister runs only on the id just fetched with success
         /\ events[i].e = "persist_begin" =>
               /\ i > 1
               /\ events[i - 1].e = "fetch"
               /\ events[i - 1].o = "metadata"
               /\ events[i - 1].n = events[i].n
         \* a failed fetch is followed by the next fetch, if by anything
         /\ (events[i].e = "fetch" /\ events[i].o = "none" /\ i < Len(events))
               => events[i + 1].e = "fetch"
         \* a fetch begins only after the persister of the id before it ended
         /\ (events[i].e = "fetch" /\ i > 1)
               => events[i - 1].e \in {"fetch", "persist_end"}

\* C3: range mode fetches every id of [start_id, end_id] exactly once in
\* increasing order whatever the fetches and the persister do, calls the
\* persister only after a successful fetch and before the next fetch, makes
\* no fetch when start_id > end_id, and terminates.
\* Termination is stated by a variant: a natural number that every step
\* of the run decreases, a step being possible until the run is done.
RangeVariant ==
    3 * (IF token_id > end_id THEN 0 ELSE end_id + 1 - token_id)
    + (CASE pc = "fetch" -> 2 [] pc = "persist" -> 1 [] OTHER -> 0)

\* the guards of RangeFetch, RangePersist and RangeDone
RangeCanStep ==
    \/ pc = "fetch" /\ InRange(token_id, end_id)
    \/ pc = "persist"
    \/ pc = "fetch" /\ ~InRange(token_id, end_id)

RangeProgress ==
    /\ RangeVariant \in Nat
    /\ pc = "done" \/ RangeCanStep

RangeDescent == RangeVariant' < RangeVariant

C3_RangeTraversal ==
    [](RangeOrder /\ RangeProgress) /\ [][RangeDescent]_vars

\* a whole range was traversed through a failed fetch and a persister that
\* raised
C3_Witness ==
    /\ pc = "done"
    /\ start_id = 0 /\ end_id = MaxTokenId
    /\ \E i \in DOMAIN events : events[i].e = "fetch" /\ events[i].o = "none"
    /\ \E i \in DOMAIN events : events[i].e = "exception"
    /\ \E i \in DOMAIN events : events[i].e = "download" /\ events[i].o = "status"

----------------------------------------------------------------------------
(* Properties of row mode *)

\* number of the first row examined (1-indexed)
FirstRow == IF start_row < 1 THEN 1 ELSE start_row

RowsFromStart == IF Len(rows) < FirstRow THEN 0 ELSE Len(rows) - FirstRow + 1

\* a row that is blank or holds no parsable identifier
Unusable(row) ==
    \/ \A i \in DOMAIN row : Strip(row[i], Whitespace) = <<>>
    \/ \A i \in DOMAIN row : parse_nft_url(row[i]) = NoneNone

UnusableRows == {row \in RowKinds : Unusable(row)}

RowCounting ==
    LET examined == EventsOf("examine")
    IN /\ ~count.none => processed_count <= count.n
       /\ processed_count = Len(EventsOf("persist_begin"))
       \* every row examined is counted once, as processed or as skipped
       /\ Len(examined) = processed_count + skipped_count
                          + (IF pc \in {"fetch", "persist"} THEN 1 ELSE 0)
       \* the rows are examined in order from the start row, each once
       /\ \A k \in DOMAIN examined : examined[k].n = FirstRow + k - 1
       \* a fetch is made only for the row just examined, and only if usable
       /\ \A i \in DOMAIN events :
             events[i].e = "fetch" =>
                 /\ i > 1
                 /\ events[i - 1].e = "examine"
                 /\ rows[events[i - 1].n] \notin UnusableRows
       \* the loop ends on the limit or on the last row
       /\ pc = "done" =>
             \/ ~count.none /\ processed_count = count.n
             \/ Len(examined) = RowsFromStart
       /\ (pc = "done" /\ count.none) => Len(examined) = RowsFromStart

RowStep ==
    \* a skipped row does not consume the limit
    /\ skipped_count' # skipped_count =>
          skipped_count' = skipped_count + 1 /\ processed_count' = processed_count
    \* once the limit is reached no row is examined and no fetch is made
    /\ (~count.none /\ processed_count >= count.n) =>
          events' = events /\ current_row_idx' = current_row_idx

\* C4: with a limit N >= 0 processed_count never exceeds N; blank rows,
\* rows without identifier and rows whose fetch fails only increment the
\* skipped counter; once N is reached no row is examined and no fetch made;
\* the loop terminates on N or on the last row; with no limit every row from
\* the start row on is examined once, in order.
\* Termination is stated by a variant, as for range mode.
RowVariant ==
    3 * (IF current_row_idx > Len(rows) THEN 0 ELSE Len(rows) - current_row_idx)
    + (CASE pc = "fetch" -> 5 [] pc = "persist" -> 4 [] pc = "loop" -> 3
         [] OTHER -> 0)

\* the guards of RowExamine, RowFetch, RowPersist and RowDone
RowCanStep ==
    \/ /\ pc = "loop"
       /\ current_row_idx < Len(rows)
       /\ ~LimitReached(count, processed_count)
    \/ pc = "fetch"
    \/ pc = "persist"
    \/ /\ pc = "loop"
       /\ current_row_idx >= Len(rows) \/ LimitReached(count, processed_count)

RowProgress ==
    /\ RowVariant \in Nat
    /\ pc = "done" \/ RowCanStep

RowDescent == RowVariant' < RowVariant

C4_RowLimit ==
    [](RowCounting /\ RowProgress) /\ [][RowStep /\ RowDescent]_vars

\* the limit stopped the loop before the last row, after skipped rows and a
\* failed fetch
C4_Witness ==
    /\ pc = "done"
    /\ count = Limit(1)
    /\ processed_count = 1
    /\ skipped_count >= 2
    /\ current_row_idx < Len(rows)
    /\ \E i \in DOMAIN events : events[i].e = "fetch" /\ events[i].o = "none"

\* the scenario: header row, blank row, token row, then one more token row;
\* start row 1, count 1, and the fetch of row 3 succeeded
HeaderBlankToken ==
    /\ pc = "done"
    /\ Len(rows) = 4
    /\ SubSeq(rows, 1, 3) = <<HeaderRow, BlankRow, TokenRow>>
    /\ rows[4] = TokenRow
    /\ start_row = 1
    /\ count = Limit(1)
    /\ \E i \in 1..(Len(events) - 1) :
          /\ events[i].e = "examine" /\ events[i].n = 3
          /\ events[i + 1].e = "fetch" /\ events[i + 1].o = "metadata"

ExaminedRows == {EventsOf("examine")[k].n : k \in DOMAIN EventsOf("examine")}

\* C5 as stated: the scenario ends with processed = 1 and skipped = 1, no
\* row after row 3 examined.
C5_ScenarioAsStated ==
    HeaderBlankToken =>
        processed_count = 1 /\ skipped_count = 1 /\ ExaminedRows = {1, 2, 3}

\* C5 amended: the scenario ends with processed = 1 and skipped = 2, the
\* header row 1 being examined and counted as skipped like the blank row 2;
\* no row after row 3 is examined.
C5_Scenario ==
    HeaderBlankToken =>
        processed_count = 1 /\ skipped_count = 2 /\ ExaminedRows = {1, 2, 3}

C5_Witness == HeaderBlankToken /\ current_row_idx = 3

\* the events of the persister call that just ended
LastPersistStart ==
    CHOOSE i \in DOMAIN events :
        /\ events[i].e = "persist_begin"
        /\ \A k \in DOMAIN events : events[k].e = "persist_begin" => k <= i

\* C10: every token counted as processed has both its JSON files in the
\* output directory, the full record and the simplified projection, and at
\* most two media files, whatever the shape of its optional fields.
C10_ProcessedHasBothJson ==
    (events # <<>> /\ events[Len(events)].e = "persist_end") =>
        /\ processed_count = Len(EventsOf("persist_begin"))
        /\ BothJsonWritten(metadata.value, token_id)
        /\ Cardinality({i \in LastPersistStart..Len(events) :
                           events[i].e = "download"}) <= 2

----------------------------------------------------------------------------
(* Properties of the request listener *)

\* a token id as the interface reads it: decimal digits, or 0x and
\* hexadecimal digits
ValidTokenText(v) ==
    /\ v.t = "str"
    /\ \/ v.s # <<>> /\ \A i \in DOMAIN v.s : v.s[i] \in Digits
       \/ /\ Len(v.s) > 2
          /\ MatchAt(v.s, 1, <<"0", "x">>)
          /\ \A i \in 3..Len(v.s) : v.s[i] \in HexChars

TokenTextValue(v) ==
    IF MatchAt(v.s, 1, <<"0", "x">>) THEN DigitsValue(Drop(v.s, 2), 16)
    ELSE DigitsValue(v.s, 10)

Supplied(v) == v.t = "str" /\ v.s # <<>>

\* the requests the listener has to refuse
BadRequest(request) ==
    \/ ~Supplied(request.contract)
    \/ ~Supplied(request.first)
    \/ ~ValidTokenText(request.first)
    \/ Supplied(request.last) /\ ~ValidTokenText(request.last)

FirstId(request) == TokenTextValue(request.first)

LastId(request) ==
    IF Supplied(request.last) THEN TokenTextValue(request.last)
    ELSE FirstId(request)

\* do_GET has ended, by returning or by an exception
HandlerEnded == pc \in {"responded", "raised"}

\* C11: every GET request receives exactly one status response; it is 400,
\* with Range mode not invoked, when the contract address or the first token
\* id is missing or a supplied token id is no decimal or 0x-prefixed
\* hexadecimal integer; otherwise Range mode is invoked exactly once over
\* [first, last], last defaulting to first, and the response is 200.
C11_OneStatusResponse ==
    HandlerEnded =>
        LET responses == EventsOf("send_response")
            invoked   == EventsOf("browse_nfts")
        IN /\ Len(responses) = 1
           /\ IF BadRequest(input)
              THEN responses[1].n = 400 /\ invoked = <<>>
              ELSE /\ responses[1].n = 200
                   /\ Len(invoked) = 1
                   /\ start_id = FirstId(input) /\ end_id = LastId(input)

\* a request with a contract address and no FIRST_TOKEN_ID has been handled
C11_Witness ==
    /\ HandlerEnded
    /\ input.contract = Str(S_0xc)
    /\ input.first = Absent

====
